---- MODULE Spec2Model ----
\* Model of the generate-request reconciliation of pkg/generate/generate.go
\* (processGR and the functions it calls, against a resource store, a status
\* control and a policy-violation generator), of the policy controller of
\* pkg/controller/controller.go (its work queue, workers and Run) and of the
\* mutation of one resource by one policy (engine.Mutate).
EXTENDS Integers, Sequences, FiniteSets, TLC

\* ---------------------------------------------------------------- bounds
MaxRules == 2
MaxTime == 2
\* The size of the worker pool and the retry ceiling of the controller.
policyControllerWorkerCount == 2
policyWorkQueueRetryLimit == 2
\* The longest policy given to Mutate.
MaxMutateRules == 2

\* ---------------------------------------------------------------- values
\* Names of the objects a rule can generate, and of the clone source.
TargetNames == {"t1", "t2"}
SourceName == "src"
StoreKeys == TargetNames \cup {SourceName}
\* The triggering resource's name, and a variable reference resolving to it.
ResourceName == "t2"
NameVar == "{{request.object.metadata.name}}"
GenKind == "ConfigMap"
GenNamespace == "default"

\* Structured values: a mapping is the set of its fields; a template that is
\* no mapping (a scalar) cannot be converted to structured form.
NoData == [kind |-> "nil", fields |-> {}]
Template == [kind |-> "map", fields |-> {"a"}]
BadData == [kind |-> "scalar", fields |-> {}]
NoClone == ""

\* Objects of the store: absent, or present with content and a version stamp.
Absent == [exists |-> FALSE, fields |-> {}, resourceVersion |-> ""]
Object(fields, rv) == [exists |-> TRUE, fields |-> fields, resourceVersion |-> rv]
Contents == {{"a"}, {"b"}}
StoredObjects == {Object(f, "1") : f \in Contents}

\* Errors: a kind and the name the error is about.
Err(kind, name) == [kind |-> kind, name |-> name]
NoErr == Err("nil", "")
NewNotFound(name) == Err("NotFound", name)
NewViolation(name) == Err("Violation", name)
NewParseFailed(name) == Err("ParseFailed", name)
NewConfigNotFound(name) == Err("ConfigNotFound", name)

\* GenerateRequest states.
StateNew == ""
Completed == "Completed"
Failed == "Failed"

\* kyverno.ResourceSpec; the zero value is what applyRule calls noGenResource.
ResourceSpec(kind, namespace, name) == [kind |-> kind, namespace |-> namespace, name |-> name]
noGenResource == ResourceSpec("", "", "")

\* A rule's Generation: attributes as written by the author.
Generation(name, data, clone) == [name |-> name, data |-> data, clone |-> clone]
\* The modes of a rule: no generation, an inline template (convertible or not),
\* or a clone source.
Modes == {[data |-> NoData, clone |-> NoClone], [data |-> Template, clone |-> NoClone],
          [data |-> BadData, clone |-> NoClone], [data |-> NoData, clone |-> SourceName]}
\* Rules at odd positions name their target literally, rules at even positions
\* by a reference to the triggering resource.
NameAt(i) == IF i % 2 = 1 THEN "t1" ELSE NameVar
Policies ==
  UNION {{[i \in 1..n |-> Generation(NameAt(i), m[i].data, m[i].clone)] : m \in [1..n -> Modes]}
         : n \in 1..MaxRules}
HasGenerate(rule) == rule.data # NoData \/ rule.clone # NoClone

\* F applied to the value of v, with v evaluated once.
With(v, F(_)) == CHOOSE y \in {F(x) : x \in {v}} : TRUE

\* ------------------------------------------------------- store collaborator
\* A store call session: the store, the log of calls of the pass, and the index
\* of the call that meets a store error (0: none).
Session(st, calls, fault) == [store |-> st, calls |-> calls, fault |-> fault]
Call(op, name, result, payload) == [op |-> op, name |-> name, result |-> result, payload |-> payload]
Payload(fields, name, namespace, rv) ==
  [fields |-> fields, name |-> name, namespace |-> namespace, resourceVersion |-> rv]
NoPayload == Payload({}, "", "", "")

\* client.GetResource: the object, NotFound, or a store error.
GetResource(s, name) ==
  LET result == IF Len(s.calls) + 1 = s.fault THEN "StoreError"
                ELSE IF s.store[name].exists THEN "ok" ELSE "NotFound"
  IN [obj |-> IF result = "ok" THEN s.store[name] ELSE Absent,
      err |-> IF result = "ok" THEN NoErr ELSE Err(result, name),
      s |-> [s EXCEPT !.calls = Append(@, Call("get", name, result, NoPayload))]]

\* client.CreateResource: a store error, a conflict when the object exists, or
\* the object stored with a fresh version stamp.
CreateResource(s, name, newResource) ==
  LET result == IF Len(s.calls) + 1 = s.fault THEN "StoreError"
                ELSE IF s.store[name].exists THEN "AlreadyExists" ELSE "ok"
  IN [err |-> IF result = "ok" THEN NoErr ELSE Err(result, name),
      s |-> [s EXCEPT !.calls = Append(@, Call("create", name, result, newResource)),
                      !.store = IF result = "ok"
                                THEN [@ EXCEPT ![name] = Object(newResource.fields, "1")]
                                ELSE @]]

\* ------------------------------------------------------------- generate.go
\* variables.SubstituteVariables on an attribute: a reference resolves to the
\* triggering resource's name, other strings pass through.
SubstituteVariables(value) == IF value = NameVar THEN ResourceName ELSE value

variableSubsitutionForAttributes(gen) ==
  [gen EXCEPT !.name = SubstituteVariables(gen.name),
              !.clone = SubstituteVariables(gen.clone)]

\* validate.ValidateResourceWithPattern: an error unless the pattern is a
\* mapping whose fields are all in the resource.
ValidateResourceWithPattern(resource, pattern) ==
  IF pattern.kind = "map" /\ pattern.fields \subseteq resource.fields
  THEN NoErr ELSE Err("PatternError", "")

checkResource(newResourceSpec, resource) ==
  LET err == ValidateResourceWithPattern(resource, newResourceSpec)
  IN IF err # NoErr THEN [ok |-> FALSE, err |-> err] ELSE [ok |-> TRUE, err |-> NoErr]

\* runtime.DefaultUnstructuredConverter.ToUnstructured
ToUnstructured(newData) ==
  IF newData.kind = "map" THEN [rdata |-> newData, err |-> NoErr]
  ELSE [rdata |-> NoData, err |-> Err("ConvertError", "")]

Result(rdata, err, s) == [rdata |-> rdata, err |-> err, s |-> s]

\* handleData with the request state ignored: a missing target is always
\* materialized from the template.
handleData_recreate(generateRule, s, state) ==
  LET newData == generateRule.data
  IN With(GetResource(s, generateRule.name), LAMBDA got :
       IF got.err.kind = "NotFound"
       THEN LET conv == ToUnstructured(newData)
            IN IF conv.err # NoErr
               THEN Result(NoData, NewParseFailed(generateRule.name), got.s)
               ELSE Result(conv.rdata, NoErr, got.s)
       ELSE IF got.err # NoErr
       THEN Result(NoData, got.err, got.s)
       ELSE LET chk == checkResource(newData, got.obj)
            IN IF chk.err # NoErr THEN Result(NoData, chk.err, got.s)
               ELSE IF ~chk.ok THEN Result(NoData, NewConfigNotFound(generateRule.name), got.s)
               ELSE Result(NoData, NoErr, got.s))

handleData(generateRule, s, state) ==
  LET newData == generateRule.data
  IN With(GetResource(s, generateRule.name), LAMBDA got :
       IF got.err.kind = "NotFound"
       THEN IF state = StateNew
            THEN LET conv == ToUnstructured(newData)
                 IN IF conv.err # NoErr
                    THEN Result(NoData, NewParseFailed(generateRule.name), got.s)
                    ELSE Result(conv.rdata, NoErr, got.s)
            ELSE Result(NoData, NewViolation(generateRule.name), got.s)
       ELSE IF got.err # NoErr
       THEN Result(NoData, got.err, got.s)
       ELSE LET chk == checkResource(newData, got.obj)
            IN IF chk.err # NoErr THEN Result(NoData, chk.err, got.s)
               ELSE IF ~chk.ok THEN Result(NoData, NewConfigNotFound(generateRule.name), got.s)
               ELSE Result(NoData, NoErr, got.s))

\* handleClone without the early return: the source is fetched also when the
\* target exists.
handleClone_alwaysFetch(generateRule, s) ==
  With(GetResource(s, generateRule.name), LAMBDA got :
    IF got.err # NoErr /\ got.err.kind # "NotFound" THEN Result(NoData, got.err, got.s)
    ELSE With(GetResource(got.s, generateRule.clone), LAMBDA src :
           IF got.err = NoErr THEN Result(NoData, NoErr, src.s)
           ELSE IF src.err.kind = "NotFound"
           THEN Result(NoData, NewNotFound(generateRule.clone), src.s)
           ELSE IF src.err # NoErr THEN Result(NoData, src.err, src.s)
           ELSE Result([kind |-> "map", fields |-> src.obj.fields], NoErr, src.s)))

handleClone(generateRule, s) ==
  With(GetResource(s, generateRule.name), LAMBDA got :
    IF got.err = NoErr THEN Result(NoData, NoErr, got.s)
    ELSE IF got.err.kind # "NotFound" THEN Result(NoData, got.err, got.s)
    ELSE With(GetResource(got.s, generateRule.clone), LAMBDA src :
           IF src.err.kind = "NotFound"
           THEN Result(NoData, NewNotFound(generateRule.clone), src.s)
           ELSE IF src.err # NoErr THEN Result(NoData, src.err, src.s)
           ELSE Result([kind |-> "map", fields |-> src.obj.fields], NoErr, src.s)))

\* The errors applyRule's data branch treats as handled.
HandledDataErrors == {"ParseFailed", "NotFound", "ConfigNotFound"}

RuleResult(spec, err, s) == [spec |-> spec, err |-> err, s |-> s]

\* The create step without SetName: the payload carries no name.
createStep_unnamed(gen, rdata, err, s, processExisting) ==
  IF processExisting THEN RuleResult(noGenResource, err, s)
  ELSE With(CreateResource(s, gen.name, Payload(rdata.fields, "", GenNamespace, "")),
            LAMBDA made :
              IF made.err # NoErr THEN RuleResult(noGenResource, made.err, made.s)
              ELSE RuleResult(ResourceSpec(GenKind, GenNamespace, gen.name), NoErr, made.s))

\* The create step without the processExisting check.
createStep_ignoreExisting(gen, rdata, err, s, processExisting) ==
  With(CreateResource(s, gen.name, Payload(rdata.fields, gen.name, GenNamespace, "")),
       LAMBDA made :
         IF made.err # NoErr THEN RuleResult(noGenResource, made.err, made.s)
         ELSE RuleResult(ResourceSpec(GenKind, GenNamespace, gen.name), NoErr, made.s))

\* The create step of applyRule (lines 184-205).
createStep(gen, rdata, err, s, processExisting) ==
  IF processExisting THEN RuleResult(noGenResource, err, s)
  ELSE With(CreateResource(s, gen.name, Payload(rdata.fields, gen.name, GenNamespace, "")),
            LAMBDA made :
              IF made.err # NoErr THEN RuleResult(noGenResource, made.err, made.s)
              ELSE RuleResult(ResourceSpec(GenKind, GenNamespace, gen.name), NoErr, made.s))

\* The clone branch of applyRule and what follows it (lines 166-205).
cloneStep(gen, rdata, err, s, processExisting) ==
  IF gen.clone # NoClone
  THEN With(handleClone(gen, s), LAMBDA c :
         IF c.err # NoErr THEN RuleResult(noGenResource, c.err, c.s)
         ELSE IF c.rdata = NoData
         THEN RuleResult(ResourceSpec(GenKind, GenNamespace, gen.name), NoErr, c.s)
         ELSE createStep(gen, c.rdata, c.err, c.s, processExisting))
  ELSE createStep(gen, rdata, err, s, processExisting)

applyRule(rule, s, state, processExisting) ==
  LET gen == variableSubsitutionForAttributes(rule)
      newGenResource == ResourceSpec(GenKind, GenNamespace, gen.name)
  IN IF gen.data # NoData
     THEN With(handleData(gen, s, state), LAMBDA d :
            IF d.err # NoErr /\ d.err.kind \notin HandledDataErrors
            THEN RuleResult(noGenResource, d.err, d.s)
            ELSE IF d.rdata = NoData THEN RuleResult(newGenResource, NoErr, d.s)
            ELSE cloneStep(gen, d.rdata, d.err, d.s, processExisting))
     ELSE cloneStep(gen, NoData, NoErr, s, processExisting)

RECURSIVE applyRules(_, _, _, _, _, _, _)
\* The loop of applyGeneratePolicy from rule i on; results keeps what each
\* applyRule call returned and the span of its store calls.
applyRules(rules, i, s, state, processExisting, genResources, results) ==
  IF i > Len(rules)
  THEN [genResources |-> genResources, err |-> NoErr, s |-> s, results |-> results]
  ELSE IF ~HasGenerate(rules[i])
  THEN applyRules(rules, i + 1, s, state, processExisting, genResources, results)
  ELSE With(applyRule(rules[i], s, state, processExisting), LAMBDA r :
         LET res == Append(results, [rule |-> i, spec |-> r.spec, err |-> r.err,
                                     first |-> Len(s.calls) + 1, last |-> Len(r.s.calls)])
         IN IF r.err # NoErr
            THEN [genResources |-> <<>>, err |-> r.err, s |-> r.s, results |-> res]
            ELSE applyRules(rules, i + 1, r.s, state, processExisting,
                            Append(genResources, r.spec), res))

\* rcreationTime.Before(&pcreationTime)
Before(rcreationTime, pcreationTime) == rcreationTime < pcreationTime

applyGeneratePolicy(rules, rtime, ptime, s, state) ==
  applyRules(rules, 1, s, state, Before(rtime, ptime), <<>>, <<>>)

\* engine.GenerateNew: one rule response per generate rule whose resource
\* description matches the triggering resource.
GenerateNew(rules, matches) == {i \in 1..Len(rules) : HasGenerate(rules[i]) /\ matches[i]}

\* The environment of one pass: what the lookups of the pass answer.
\*   located: getResource finds the triggering resource; rtime: its creation time
\*   policyFound: the policy lister finds the policy; ptime: its creation time
\*   marshalOk: resource.MarshalJSON succeeds
\*   matches: per rule, whether its resource description matches
\*   fault: the index of the store call that meets a store error, 0 for none
Env(located, rtime, policyFound, ptime, marshalOk, matches, fault) ==
  [located |-> located, rtime |-> rtime, policyFound |-> policyFound, ptime |-> ptime,
   marshalOk |-> marshalOk, matches |-> matches, fault |-> fault]
\* applyGenerate returning the lookup error of a policy that is not found.
applyGenerate_policyError(rules, env, s, state) ==
  IF ~env.policyFound
  THEN [genResources |-> <<>>, err |-> NewNotFound("policy"), s |-> s, results |-> <<>>]
  ELSE IF ~env.marshalOk
  THEN [genResources |-> <<>>, err |-> Err("MarshalError", ""), s |-> s, results |-> <<>>]
  ELSE IF GenerateNew(rules, env.matches) = {}
  THEN [genResources |-> <<>>, err |-> Err("NotApply", ""), s |-> s, results |-> <<>>]
  ELSE applyGeneratePolicy(rules, env.rtime, env.ptime, s, state)

applyGenerate(rules, env, s, state) ==
  IF ~env.policyFound
  THEN [genResources |-> <<>>, err |-> NoErr, s |-> s, results |-> <<>>]
  ELSE IF ~env.marshalOk
  THEN [genResources |-> <<>>, err |-> Err("MarshalError", ""), s |-> s, results |-> <<>>]
  ELSE IF GenerateNew(rules, env.matches) = {}
  THEN [genResources |-> <<>>, err |-> Err("NotApply", ""), s |-> s, results |-> <<>>]
  ELSE applyGeneratePolicy(rules, env.rtime, env.ptime, s, state)

\* generatePV: the violation info of a Violation error.
generatePV(err) == [policy |-> "policy", rule |-> err.name, type |-> "Generation", blocked |-> FALSE]

\* statusControl.Failed / statusControl.Success: one terminal write each.
StatusFailed(message, genResources) ==
  [op |-> "failed", state |-> Failed, message |-> message, generated |-> genResources]
StatusSuccess(genResources) ==
  [op |-> "success", state |-> Completed, message |-> NoErr, generated |-> genResources]

\* updateStatus leaving a failed request New, for another attempt.
updateStatus_requeue(err, genResources) ==
  IF err # NoErr THEN [StatusFailed(err, genResources) EXCEPT !.state = StateNew]
  ELSE StatusSuccess(genResources)

\* updateStatus counting a Violation as a success.
updateStatus_violationOk(err, genResources) ==
  IF err # NoErr /\ err.kind # "Violation" THEN StatusFailed(err, genResources)
  ELSE StatusSuccess(genResources)

updateStatus(err, genResources) ==
  IF err # NoErr THEN StatusFailed(err, genResources) ELSE StatusSuccess(genResources)

\* What one processGR pass did.
NoPass ==
  [ran |-> FALSE, state0 |-> StateNew, located |-> FALSE, policyFound |-> FALSE,
   rtime |-> 0, ptime |-> 0, calls |-> <<>>, results |-> <<>>, genErr |-> NoErr,
   genResources |-> <<>>, pvs |-> <<>>, status |-> <<>>, ret |-> NoErr]

\* The switch with a record added for every error.
violationRecords_anyError(err) ==
  IF err # NoErr THEN <<[policy |-> "policy", rule |-> err.name, type |-> "Generation",
                         blocked |-> FALSE]>>
  ELSE <<>>

\* The switch of processGR on the error of applyGenerate (lines 33-44): a
\* Violation adds a policy-violation record, any other outcome is logged.
violationRecords(err) ==
  IF err.kind = "Violation" THEN <<generatePV(err)>> ELSE <<>>

\* processGR writing a Failed status when the triggering resource cannot be got.
notLocated_failed(state) ==
  [ran |-> TRUE, state0 |-> state, located |-> FALSE, policyFound |-> FALSE,
   rtime |-> 0, ptime |-> 0, calls |-> <<>>, results |-> <<>>, genErr |-> NoErr,
   genResources |-> <<>>, pvs |-> <<>>,
   status |-> <<StatusFailed(NewNotFound(ResourceName), <<>>)>>,
   ret |-> NewNotFound(ResourceName)]

\* processGR when the triggering resource cannot be got (lines 24-29).
notLocated(state) ==
  [NoPass EXCEPT !.ran = TRUE, !.state0 = state, !.ret = NewNotFound(ResourceName)]

\* processGR once the triggering resource is got (lines 31-49).
located(rules, env, s, state) ==
  With(applyGenerate(rules, env, s, state), LAMBDA g :
    [pass |-> [ran |-> TRUE, state0 |-> state, located |-> TRUE,
               policyFound |-> env.policyFound, rtime |-> env.rtime, ptime |-> env.ptime,
               calls |-> g.s.calls, results |-> g.results, genErr |-> g.err,
               genResources |-> g.genResources,
               pvs |-> violationRecords(g.err),
               status |-> <<updateStatus(g.err, g.genResources)>>,
               ret |-> NoErr],
     store |-> g.s.store])

\* One pass of processGR over the store st: what the pass did, and the store
\* after its calls.
processGR(rules, env, st, state) ==
  IF ~env.located THEN [pass |-> notLocated(state), store |-> st]
  ELSE located(rules, env, Session(st, <<>>, env.fault), state)

\* ------------------------------------------------------------------ state
VARIABLES
  policy,   \* the rules of the policy the request refers to
  store,    \* the resource store: generated targets and the clone source
  grState,  \* gr.Status.State
  pass,     \* the pass just run, NoPass once the store has changed since
  queue,            \* pc.queue: the work queue of policy keys
  failures,         \* the rate limiter's count of requeues per key
  waitingForQueue,  \* keys added rate-limited whose delay has not elapsed
  workers,          \* per worker: its position, its key, the outcome of its sync
  run,              \* the position of Run
  stopCh,           \* TRUE once the stop signal is raised
  policyContext,    \* the argument of Mutate
  resp              \* the EngineResponse of Mutate, NoResp before the call

genVars == <<policy, store, grState, pass>>
ctlVars == <<queue, failures, waitingForQueue, workers, run, stopCh>>
mutVars == <<policyContext, resp>>
vars == <<genVars, ctlVars, mutVars>>

\* The values of the variables of a part of the program that is not running.
NoValue == "-"
GenerateIdle == policy = NoValue /\ store = NoValue /\ grState = NoValue /\ pass = NoValue
ControllerIdle ==
  /\ queue = NoValue /\ failures = NoValue /\ waitingForQueue = NoValue
  /\ workers = NoValue /\ run = NoValue /\ stopCh = NoValue
MutateIdle == policyContext = NoValue /\ resp = NoValue

\* Creation times: the policy's, and the ones the triggering resource can have
\* (earlier than the policy's, or the same).
Times == 1..MaxTime
PolicyTime == MaxTime
RECURSIVE CreatedNames(_, _)
\* The names of the create calls among calls[i..].
CreatedNames(calls, i) ==
  IF i > Len(calls) THEN <<>>
  ELSE IF calls[i].op = "create" THEN <<calls[i].name>> \o CreatedNames(calls, i + 1)
  ELSE CreatedNames(calls, i + 1)

\* The environments of a pass. A lookup that the pass does not reach has one
\* value, and a store error can only meet a call the pass makes.
Envs(rules, st, state) ==
  LET all == [i \in 1..Len(rules) |-> TRUE]
      none == [i \in 1..Len(rules) |-> FALSE]
  IN {Env(FALSE, PolicyTime, TRUE, PolicyTime, TRUE, all, 0),
      Env(TRUE, PolicyTime, FALSE, PolicyTime, TRUE, all, 0),
      Env(TRUE, PolicyTime, TRUE, PolicyTime, FALSE, all, 0),
      Env(TRUE, PolicyTime, TRUE, PolicyTime, TRUE, none, 0)}
     \cup UNION {LET base == Env(TRUE, rt, TRUE, PolicyTime, TRUE, all, 0)
                     n == Len(processGR(rules, base, st, state).pass.calls)
                 IN {[base EXCEPT !.fault = f] : f \in 0..n}
                 : rt \in Times}

Init ==
  /\ policy \in Policies
  /\ store \in [StoreKeys -> StoredObjects \cup {Absent}]
  /\ grState = StateNew
  /\ pass = NoPass
  /\ ControllerIdle /\ MutateIdle

\* One delivery of the generate request to processGR.
ProcessGR ==
  \E env \in Envs(policy, store, grState) :
    \E out \in {processGR(policy, env, store, grState)} :
       /\ pass' = out.pass
       /\ store' = out.store
       /\ grState' = IF out.pass.status = <<>> THEN grState ELSE out.pass.status[1].state
       /\ UNCHANGED <<policy, ctlVars, mutVars>>

\* Another client of the store deletes, creates or rewrites an object.
StoreChange ==
  \E k \in StoreKeys, v \in StoredObjects \cup {Absent} :
    /\ store[k] # v
    /\ store' = [store EXCEPT ![k] = v]
    /\ pass' = NoPass
    /\ UNCHANGED <<policy, grState, ctlVars, mutVars>>

Next == ProcessGR \/ StoreChange

SpecGenerate == Init /\ [][Next]_vars

\* ------------------------------------------------------------ observations
\* The results of the rules the pass applied, and per result: its rule's
\* generation after substitution, its store calls and its create calls.
Results == {pass.results[j] : j \in 1..Len(pass.results)}
GenOf(r) == variableSubsitutionForAttributes(policy[r.rule])
TargetSpec(r) == ResourceSpec(GenKind, GenNamespace, GenOf(r).name)
RuleCalls(r) == SubSeq(pass.calls, r.first, r.last)
CreatesOf(calls) == SelectSeq(calls, LAMBDA c : c.op = "create")
IsDataRule(r) == policy[r.rule].data # NoData
IsCloneRule(r) == policy[r.rule].data = NoData /\ policy[r.rule].clone # NoClone
\* The rule's first store call asked for its target and the store answered so.
TargetAnswer(r, answer) ==
  /\ RuleCalls(r) # <<>>
  /\ RuleCalls(r)[1] = Call("get", GenOf(r).name, answer, NoPayload)
InSeq(x, seq) == \E j \in 1..Len(seq) : seq[j] = x
Count(name, names) == Cardinality({j \in 1..Len(names) : names[j] = name})

\* ------------------------------------------------------------------ claims
\* The case of C1: a first attempt (State empty) on a located resource that is
\* not older than the policy, and a data-mode rule, its template a mapping, that
\* finds its target missing.
FirstPassCase(r) ==
  /\ pass.ran /\ pass.located /\ pass.state0 = StateNew /\ ~(pass.rtime < pass.ptime)
  /\ IsDataRule(r) /\ policy[r.rule].data.kind = "map" /\ TargetAnswer(r, "NotFound")

\* C1 as stated, in passes where no store call meets a store error: in the
\* first-pass case exactly one create call is issued for the rule, with the
\* template as payload under the rule's name, and the status write is Completed
\* with the target in the generated-resource list.
C1_AsStated ==
  \A r \in Results :
    FirstPassCase(r) /\ (\A j \in 1..Len(pass.calls) : pass.calls[j].result # "StoreError") =>
      /\ CreatesOf(RuleCalls(r)) =
           <<Call("create", GenOf(r).name, "ok",
                  Payload(policy[r.rule].data.fields, GenOf(r).name, GenNamespace, ""))>>
      /\ Len(pass.status) = 1 /\ pass.status[1].op = "success"
      /\ InSeq(TargetSpec(r), pass.status[1].generated)

\* C1 (amended): in the first-pass case exactly one create call is issued for the rule, with the
\* template as payload under the rule's name and no version stamp; if the call
\* succeeds the rule reports its target, and the status write is Completed with
\* the target in the list when no other rule fails; if the call fails, or another
\* rule fails, the status write is Failed.
C1_FirstPassCreates ==
  \A r \in Results :
    FirstPassCase(r) =>
      LET cs == CreatesOf(RuleCalls(r))
      IN /\ Len(cs) = 1
         /\ cs[1].name = GenOf(r).name
         /\ cs[1].payload =
              Payload(policy[r.rule].data.fields, GenOf(r).name, GenNamespace, "")
         /\ Len(pass.status) = 1
         /\ cs[1].result = "ok" => r.spec = TargetSpec(r) /\ r.err = NoErr
                                   /\ store[GenOf(r).name].fields = policy[r.rule].data.fields
         /\ cs[1].result = "ok" /\ pass.genErr = NoErr =>
              /\ pass.status[1].op = "success" /\ grState = Completed
              /\ InSeq(TargetSpec(r), pass.status[1].generated)
         /\ cs[1].result # "ok" \/ pass.genErr # NoErr =>
              pass.status[1].op = "failed" /\ grState = Failed

C1_Witness ==
  \E r \in Results :
    /\ FirstPassCase(r)
    /\ CreatesOf(RuleCalls(r))[1].result = "ok"
    /\ pass.status[1].op = "success"
    /\ Len(pass.results) = 2

\* The case of C2: a replay (State already Completed or Failed) in which a
\* data-mode rule finds its target missing.
ReplayCase(p, r) ==
  /\ p.ran /\ p.located /\ p.state0 \in {Completed, Failed}
  /\ policy[r.rule].data # NoData
  /\ p.calls[r.first] = Call("get", GenOf(r).name, "NotFound", NoPayload)

\* The results of the rules the next pass applied.
NextResults == {pass'.results[j] : j \in 1..Len(pass'.results)}

\* A first delivery (State empty) in which data-mode rule i finds its target
\* missing, followed at once by a replay in which it finds it still missing.
FirstThenReplay(q, r) ==
  /\ pass.ran /\ pass.located /\ pass.state0 = StateNew
  /\ q.rule = r.rule /\ IsDataRule(q) /\ TargetAnswer(q, "NotFound")
  /\ ReplayCase(pass', r)

\* The create calls that two deliveries in a row issue for a target.
CreatesInBoth(name) ==
  Count(name, CreatedNames(pass.calls, 1)) + Count(name, CreatedNames(pass'.calls, 1))

ReplayViolation(p, state) ==
  \A j \in 1..Len(p.results) :
    LET r == p.results[j]
    IN ReplayCase(p, r) =>
         /\ r.err = NewViolation(GenOf(r).name)
         /\ p.genErr = r.err
         /\ CreatesOf(SubSeq(p.calls, r.first, r.last)) = <<>>
         /\ Count(GenOf(r).name, CreatedNames(p.calls, 1)) = 0
         /\ (\A i \in 1..Len(policy) : policy[i].clone = NoClone) => CreatesOf(p.calls) = <<>>
         /\ Len(p.status) = 1 /\ p.status[1].op = "failed" /\ state = Failed

C3_AsStated ==
  [][/\ grState = Completed => grState' = Completed
     /\ grState = Failed => grState' = Failed]_vars

\* C3 (amended): the states written are Completed and Failed only, and a request
\* that has left New never returns to it; it can still go from Completed to
\* Failed and from Failed to Completed on a replay.
C3_NeverBackToNew ==
  [][/\ grState' \in {StateNew, Completed, Failed}
     /\ grState # StateNew => grState' # StateNew
     /\ grState' # grState => pass'.ran /\ Len(pass'.status) = 1
                              /\ grState' \in {Completed, Failed}]_vars

C3_Witness ==
  /\ pass.ran /\ pass.state0 = Completed /\ grState = Failed

\* C4: when processGR cannot get the triggering resource it returns the error,
\* calls neither status write, applies no rule, makes no store call for a
\* target, and the request's State is left as it was.
C4_NotLocatedNoStatus ==
  pass.ran /\ ~pass.located =>
    /\ pass.ret # NoErr
    /\ pass.status = <<>>
    /\ pass.results = <<>>
    /\ pass.calls = <<>>
    /\ pass.pvs = <<>>
    /\ grState = pass.state0

C4_Witness == pass.ran /\ ~pass.located /\ pass.state0 = Failed

\* C5: every pass that locates the triggering resource issues exactly one status
\* write: failed, carrying the error, if and only if applying the generate
\* policy returned an error (a Violation included), and success otherwise.
C5_OneStatusWrite ==
  pass.ran /\ pass.located =>
    /\ Len(pass.status) = 1
    /\ pass.status[1].op \in {"failed", "success"}
    /\ pass.status[1].op = "failed" <=> pass.genErr # NoErr
    /\ pass.status[1].op = "failed" <=>
         \/ \E r \in Results : r.err # NoErr
         \/ pass.genErr.kind \in {"MarshalError", "NotApply"}
    /\ pass.status[1].op = "failed" => pass.status[1].message = pass.genErr
                                       /\ grState = Failed
    /\ pass.status[1].op = "success" => grState = Completed

C5_Witness ==
  /\ pass.ran /\ pass.located
  /\ pass.genErr.kind = "Violation" /\ pass.status[1].op = "failed"

\* C6 as stated: when a pass fails at rule k after rules 1..k-1 succeeded, the
\* Failed status write carries the ResourceSpecs of rules 1..k-1; when no rule
\* fails, the Completed write carries one ResourceSpec per generate rule, in
\* rule order.
C6_AsStated ==
  pass.ran /\ pass.located /\ pass.results # <<>> =>
    LET k == Len(pass.results)
    IN IF pass.results[k].err # NoErr
       THEN /\ pass.status[1].op = "failed"
            /\ pass.status[1].generated = [j \in 1..(k - 1) |-> pass.results[j].spec]
       ELSE /\ pass.status[1].op = "success"
            /\ pass.status[1].generated = [j \in 1..k |-> pass.results[j].spec]
            /\ k = Cardinality({i \in 1..Len(policy) : HasGenerate(policy[i])})

\* The resolution of a rule succeeded with its target missing: a first-attempt
\* data rule whose template converts, or a clone rule whose source was got.
ResolvedMissing(r) ==
  /\ TargetAnswer(r, "NotFound")
  /\ \/ IsDataRule(r) /\ pass.state0 = StateNew /\ policy[r.rule].data.kind = "map"
     \/ /\ IsCloneRule(r) /\ Len(RuleCalls(r)) >= 2
        /\ RuleCalls(r)[2] = Call("get", GenOf(r).clone, "ok", NoPayload)

\* C7: in a pass where the triggering resource's creation time is earlier than
\* the policy's, no create call is issued for any rule, in data mode or clone
\* mode; a rule whose resolution succeeds with the target missing returns an
\* empty ResourceSpec and no error, and its target stays missing.
C7_ProcessExistingNoCreate ==
  pass.ran /\ pass.located /\ pass.rtime < pass.ptime =>
    /\ CreatesOf(pass.calls) = <<>>
    /\ \A r \in Results :
         ResolvedMissing(r) => /\ r.spec = noGenResource /\ r.err = NoErr
                               /\ ~store[GenOf(r).name].exists

C7_Witness ==
  /\ pass.ran /\ pass.located /\ pass.rtime < pass.ptime
  /\ \E r \in Results : ResolvedMissing(r) /\ IsCloneRule(r)
  /\ \E r \in Results : ResolvedMissing(r) /\ IsDataRule(r)

\* C8: a clone-mode rule whose target exists succeeds without fetching the
\* source and without a create call; with target and source both missing it
\* returns a NotFound error naming the source and no create call is issued; with
\* the target missing and the source present, the source's content is the
\* payload of the create call, issued unless the resource is older than the policy.
C8_CloneMode ==
  \A r \in Results :
    pass.ran /\ IsCloneRule(r) =>
      /\ TargetAnswer(r, "ok") =>
           /\ Len(RuleCalls(r)) = 1
           /\ r.spec = TargetSpec(r) /\ r.err = NoErr
      /\ TargetAnswer(r, "NotFound") /\ Len(RuleCalls(r)) >= 2
           /\ RuleCalls(r)[2] = Call("get", GenOf(r).clone, "NotFound", NoPayload) =>
           /\ Len(RuleCalls(r)) = 2
           /\ r.err = NewNotFound(GenOf(r).clone) /\ r.spec = noGenResource
           /\ ~store[GenOf(r).name].exists
           /\ pass.status[1].op = "failed"
      /\ ResolvedMissing(r) =>
           IF pass.rtime < pass.ptime THEN Len(RuleCalls(r)) = 2
           ELSE /\ Len(RuleCalls(r)) = 3
                /\ RuleCalls(r)[3].op = "create"
                /\ RuleCalls(r)[3].name = GenOf(r).name
                /\ RuleCalls(r)[3].payload =
                     Payload(store[GenOf(r).clone].fields, GenOf(r).name, GenNamespace, "")
                /\ RuleCalls(r)[3].result = "ok" =>
                     /\ store[GenOf(r).name].fields = store[GenOf(r).clone].fields
                     /\ r.spec = TargetSpec(r) /\ r.err = NoErr

C8_Witness ==
  /\ \E r \in Results : IsCloneRule(r) /\ ResolvedMissing(r) /\ Len(RuleCalls(r)) = 3
                        /\ RuleCalls(r)[3].result = "ok"
                        /\ store[GenOf(r).name].fields = {"b"}
  /\ \E r \in Results : IsCloneRule(r) /\ TargetAnswer(r, "ok")

\* C9 as stated: a data-mode rule whose target exists is a no-op success (no
\* create call, the target's ResourceSpec, no error) if the template is a
\* subset of the existing object, and raises a ConfigNotFound fault, with no
\* create call, if it is not.
C9_AsStated ==
  \A r \in Results :
    pass.ran /\ IsDataRule(r) /\ TargetAnswer(r, "ok") =>
      IF policy[r.rule].data.kind = "map"
         /\ policy[r.rule].data.fields \subseteq store[GenOf(r).name].fields
      THEN CreatesOf(RuleCalls(r)) = <<>> /\ r.spec = TargetSpec(r) /\ r.err = NoErr
      ELSE CreatesOf(RuleCalls(r)) = <<>> /\ r.err.kind = "ConfigNotFound"

\* C10: a pass adds a policy-violation record if and only if applying the
\* generate policy returned a Violation, which is when a replayed data-mode rule
\* found its target missing; every other error and every success adds none.
C10_ViolationRecordIffViolation ==
  pass.ran =>
    /\ pass.pvs # <<>> <=> pass.genErr.kind = "Violation"
    /\ pass.pvs # <<>> <=> \E r \in Results : ReplayCase(pass, r)
    /\ Len(pass.pvs) <= 1
    /\ pass.pvs # <<>> => pass.pvs[1].rule = pass.genErr.name
    /\ pass.genErr.kind \in {"nil", "NotFound", "ConfigNotFound", "ParseFailed", "StoreError",
                             "AlreadyExists", "PatternError", "NotApply", "MarshalError"}
         => pass.pvs = <<>>

C10_Witness ==
  /\ pass.ran /\ pass.pvs # <<>>
  /\ Len(pass.results) = 2

\* C21 as stated: on a first pass, a data-mode rule whose template cannot be
\* converted and whose target is missing issues no create call, fails, does
\* not report its target, and the pass does not end Completed.
C21_AsStated ==
  \A r \in Results :
    (/\ pass.ran /\ pass.located /\ pass.state0 = StateNew
     /\ IsDataRule(r) /\ policy[r.rule].data.kind # "map" /\ TargetAnswer(r, "NotFound"))
    => /\ CreatesOf(RuleCalls(r)) = <<>>
       /\ r.err # NoErr /\ r.spec # TargetSpec(r)
       /\ Len(pass.status) = 1 /\ pass.status[1].op = "failed"
       /\ ~InSeq(TargetSpec(r), pass.status[1].generated)
       /\ grState # Completed

\* C22 as stated: a delivery whose State is already Completed or Failed issues
\* no create call.
C22_AsStated ==
  pass.ran /\ pass.located /\ pass.state0 \in {Completed, Failed} =>
    CreatesOf(pass.calls) = <<>>

\* C24: a pass that locates the triggering resource and does not find the
\* policy applies no rule, makes no store call, adds no violation record and
\* writes Completed with an empty generated-resource list.
C24_PolicyNotFound ==
  pass.ran /\ pass.located /\ ~pass.policyFound =>
    /\ pass.results = <<>>
    /\ pass.calls = <<>>
    /\ pass.pvs = <<>>
    /\ pass.genErr = NoErr
    /\ pass.status = <<StatusSuccess(<<>>)>>
    /\ grState = Completed

\* The policy is not found although it has a generate rule whose target is
\* missing from the store.
C24_Witness ==
  /\ pass.ran /\ pass.located /\ ~pass.policyFound
  /\ HasGenerate(policy[1]) /\ ~store["t1"].exists
  /\ grState = Completed

\* ============================================================ controller
\* The policy controller of pkg/controller/controller.go.

\* The keys of the policies, and the versions a policy object can carry.
Keys == {"p1", "p2"}
ResourceVersions == {"1", "2"}
PolicyObject(name, rv) == [name |-> name, resourceVersion |-> rv]

\* cache.MetaNamespaceKeyFunc: a policy object always yields its key.
MetaNamespaceKeyFunc(obj) == [key |-> obj.name, err |-> NoErr]

\* The rules of the stored policies: the kinds a rule selects, and the
\* wildcard pattern on the resource name ("" when the rule names none).
KindRule(kinds, name) == [kinds |-> kinds, name |-> name]
PolicyRules(name) ==
  IF name = "p1" THEN <<KindRule(<<"ConfigMap">>, "")>>
  ELSE <<KindRule(<<"ConfigMap", "Deployment">>, "t*"), KindRule(<<"Deployment">>, "")>>
\* The resources of the store by kind.
ListedNames(kind) == IF kind = "ConfigMap" THEN <<"t1", "x1">> ELSE <<"t2">>
ListedKinds == {"ConfigMap", "Deployment"}
\* wildcard.Match for the patterns of the model: "t*" matches the names
\* starting with t.
WildcardMatch(pattern, name) == pattern = "t*" /\ name \in {"t1", "t2"}

\* ---- workqueue: the queue proper (queue, dirty, processing), shut down or not
NewQueue == [queue |-> <<>>, dirty |-> {}, processing |-> {}, shuttingDown |-> FALSE]

\* Add that queues a key also while a worker is processing it.
queueAdd_whileProcessing(q, key) ==
  IF q.shuttingDown \/ key \in q.dirty THEN q
  ELSE [q EXCEPT !.dirty = @ \cup {key}, !.queue = Append(@, key)]

\* queue.Add: a key already pending is held once; a key in flight is only
\* marked dirty; a queue shutting down accepts nothing.
queueAdd(q, key) ==
  IF q.shuttingDown \/ key \in q.dirty THEN q
  ELSE IF key \in q.processing THEN [q EXCEPT !.dirty = @ \cup {key}]
  ELSE [q EXCEPT !.dirty = @ \cup {key}, !.queue = Append(@, key)]

\* queue.Get on a queue that holds a key.
queueGet(q) ==
  [item |-> Head(q.queue),
   q |-> [q EXCEPT !.queue = Tail(@), !.processing = @ \cup {Head(q.queue)},
                   !.dirty = @ \ {Head(q.queue)}]]

\* queue.Done: the key leaves processing and, if it was re-added meanwhile,
\* is queued.
queueDone(q, key) ==
  IF key \in q.dirty
  THEN [q EXCEPT !.processing = @ \ {key}, !.queue = Append(@, key)]
  ELSE [q EXCEPT !.processing = @ \ {key}]

queueShutDown(q) == [q EXCEPT !.shuttingDown = TRUE]

\* The rate-limited part of the queue: its failure counts and its delayed adds.
Limited(q, f, waiting) == [queue |-> q, failures |-> f, waiting |-> waiting]
NumRequeues(c, key) == c.failures[key]
Forget(c, key) == [c EXCEPT !.failures[key] = 0]
\* queue.AddRateLimited: the limiter counts the requeue, and the key is added
\* after its delay unless the queue is shutting down.
AddRateLimited(c, key) ==
  [c EXCEPT !.failures[key] = @ + 1,
            !.waiting = IF c.queue.shuttingDown THEN @ ELSE @ \cup {key}]

\* ---- the controller's functions
\* enqueuePolicy (lines 80-88).
enqueuePolicy(q, obj) ==
  LET k == MetaNamespaceKeyFunc(obj)
  IN IF k.err # NoErr THEN q ELSE queueAdd(q, k.key)

\* handleErr retrying once more than the limit.
handleErr_oneMore(err, key, c) ==
  IF err = NoErr THEN Forget(c, key)
  ELSE IF NumRequeues(c, key) <= policyWorkQueueRetryLimit THEN AddRateLimited(c, key)
  ELSE Forget(c, key)

\* handleErr (lines 135-151).
handleErr(err, key, c) ==
  IF err = NoErr THEN Forget(c, key)
  ELSE IF NumRequeues(c, key) < policyWorkQueueRetryLimit THEN AddRateLimited(c, key)
  ELSE Forget(c, key)

\* The deferred Done skipped when the sync failed.
workItemDone_onSuccess(q, key, err) == IF err = NoErr THEN queueDone(q, key) ELSE q

\* The deferred Done of processNextWorkItem (line 123): it runs whatever the
\* error of the sync was.
workItemDone(q, key, err) == queueDone(q, key)

RECURSIVE ruleResources(_, _, _, _)
\* The inner loops of processPolicy for one rule (lines 188-219), from its
\* kind i on: the resources selected, and the lists that failed.
ruleResources(rule, i, listFails, acc) ==
  IF i > Len(rule.kinds) THEN acc
  ELSE LET k == rule.kinds[i]
       IN IF k \in listFails
          THEN ruleResources(rule, i + 1, listFails, [acc EXCEPT !.failed = Append(@, k)])
          ELSE ruleResources(rule, i + 1, listFails,
                 [acc EXCEPT !.resources = @ \o
                    SelectSeq([j \in 1..Len(ListedNames(k)) |->
                                 [kind |-> k, name |-> ListedNames(k)[j]]],
                              LAMBDA r : rule.name = "" \/ WildcardMatch(rule.name, r.name))])

RECURSIVE processPolicy(_, _, _, _)
\* processPolicy (lines 184-226) from rule i on: the resources the policy is
\* applied to and the lists that failed; nothing is returned to the caller.
processPolicy(rules, i, listFails, acc) ==
  IF i > Len(rules) THEN acc
  ELSE processPolicy(rules, i + 1, listFails, ruleResources(rules[i], 1, listFails, acc))

\* syncHandler (lines 153-182): its error, and whether an access to the
\* lister or the store failed on the way.
syncHandler(key, listerResult, listFails) ==
  IF listerResult = "NotFound" THEN [err |-> NoErr, storeErr |-> FALSE]
  ELSE IF listerResult = "error" THEN [err |-> Err("ListerError", key), storeErr |-> TRUE]
  ELSE LET done == processPolicy(PolicyRules(key), 1, listFails,
                                 [resources |-> <<>>, failed |-> <<>>])
       IN [err |-> NoErr, storeErr |-> done.failed # <<>>]

\* ---- state machine
Workers == 1..policyControllerWorkerCount
Worker(pc, key, err, storeErr) == [pc |-> pc, key |-> key, err |-> err, storeErr |-> storeErr]
NoKey == ""
InFlight(w) == workers[w].pc \in {"sync", "handleErr", "done"}

InitController ==
  /\ queue = NewQueue
  /\ failures = [k \in Keys |-> 0]
  /\ waitingForQueue = {}
  /\ workers = [w \in Workers |-> Worker("off", NoKey, NoErr, FALSE)]
  /\ run = "init"
  /\ stopCh = FALSE
  /\ GenerateIdle /\ MutateIdle

\* createPolicyHandler (lines 57-59).
createPolicyHandler ==
  \E k \in Keys, rv \in ResourceVersions :
    /\ queue' = enqueuePolicy(queue, PolicyObject(k, rv))
    /\ UNCHANGED <<failures, waitingForQueue, workers, run, stopCh, genVars, mutVars>>

\* updatePolicyHandler (lines 61-68).
updatePolicyHandler ==
  \E k \in Keys, old \in ResourceVersions, new \in ResourceVersions :
    /\ queue' = IF new = old THEN queue ELSE enqueuePolicy(queue, PolicyObject(k, new))
    /\ UNCHANGED <<failures, waitingForQueue, workers, run, stopCh, genVars, mutVars>>

\* The delay of a rate-limited add elapses and the key is added.
DelayElapsed ==
  \E k \in waitingForQueue :
    /\ queue' = queueAdd(queue, k)
    /\ waitingForQueue' = waitingForQueue \ {k}
    /\ UNCHANGED <<failures, workers, run, stopCh, genVars, mutVars>>

\* Run up to the start of the workers (lines 91-102): the wait for the cache
\* fails when the stop signal is raised first, and Run returns through its
\* deferred ShutDown.
RunStart ==
  /\ run = "init"
  /\ IF stopCh
     THEN /\ run' = "failed"
          /\ queue' = queueShutDown(queue)
          /\ UNCHANGED workers
     ELSE /\ run' = "started"
          /\ workers' = [w \in Workers |-> [workers[w] EXCEPT !.pc = "until"]]
          /\ UNCHANGED queue
  /\ UNCHANGED <<failures, waitingForQueue, stopCh, genVars, mutVars>>

\* Run returns nil (line 104) through its deferred ShutDown (line 93).
RunReturn ==
  /\ run = "started"
  /\ run' = "returned"
  /\ queue' = queueShutDown(queue)
  /\ UNCHANGED <<failures, waitingForQueue, workers, stopCh, genVars, mutVars>>

\* The stop signal is raised.
Stop ==
  /\ ~stopCh
  /\ stopCh' = TRUE
  /\ UNCHANGED <<queue, failures, waitingForQueue, workers, run, genVars, mutVars>>

\* wait.Until (line 100): runWorker is called again until the stop signal.
WorkerUntil(w) ==
  /\ workers[w].pc = "until"
  /\ workers' = [workers EXCEPT ![w].pc = IF stopCh THEN "exited" ELSE "get"]
  /\ UNCHANGED <<queue, failures, waitingForQueue, run, stopCh, genVars, mutVars>>

\* processNextWorkItem, the Get (lines 117-120): blocks on an empty open
\* queue, and ends runWorker on an empty queue that is shutting down.
WorkerGet(w) ==
  /\ workers[w].pc = "get"
  /\ IF queue.queue # <<>>
     THEN LET got == queueGet(queue)
          IN /\ queue' = got.q
             /\ workers' = [workers EXCEPT ![w] = Worker("sync", got.item, NoErr, FALSE)]
     ELSE /\ queue.shuttingDown
          /\ workers' = [workers EXCEPT ![w].pc = "until"]
          /\ UNCHANGED queue
  /\ UNCHANGED <<failures, waitingForQueue, run, stopCh, genVars, mutVars>>

\* processNextWorkItem, the call of syncHandler (line 124).
WorkerSync(w) ==
  /\ workers[w].pc = "sync"
  /\ \E listerResult \in {"ok", "NotFound", "error"}, listFails \in SUBSET ListedKinds :
        LET r == syncHandler(workers[w].key, listerResult, listFails)
        IN workers' = [workers EXCEPT ![w] = Worker("handleErr", workers[w].key, r.err, r.storeErr)]
  /\ UNCHANGED <<queue, failures, waitingForQueue, run, stopCh, genVars, mutVars>>

\* processNextWorkItem, the call of handleErr (line 125).
WorkerHandleErr(w) ==
  /\ workers[w].pc = "handleErr"
  /\ LET c == handleErr(workers[w].err, workers[w].key, Limited(queue, failures, waitingForQueue))
     IN /\ failures' = c.failures
        /\ waitingForQueue' = c.waiting
        /\ queue' = c.queue
  /\ workers' = [workers EXCEPT ![w].pc = "done"]
  /\ UNCHANGED <<run, stopCh, genVars, mutVars>>

\* processNextWorkItem, the deferred Done and the return (lines 123, 132).
WorkerDone(w) ==
  /\ workers[w].pc = "done"
  /\ queue' = workItemDone(queue, workers[w].key, workers[w].err)
  /\ workers' = [workers EXCEPT ![w] = Worker("get", NoKey, NoErr, FALSE)]
  /\ UNCHANGED <<failures, waitingForQueue, run, stopCh, genVars, mutVars>>

NextController ==
  \/ createPolicyHandler
  \/ updatePolicyHandler
  \/ DelayElapsed
  \/ RunStart
  \/ RunReturn
  \/ Stop
  \/ \E w \in Workers : WorkerUntil(w)
  \/ \E w \in Workers : WorkerGet(w)
  \/ \E w \in Workers : WorkerSync(w)
  \/ \E w \in Workers : WorkerHandleErr(w)
  \/ \E w \in Workers : WorkerDone(w)

SpecController == InitController /\ [][NextController]_vars

\* ---------------------------------------------------- claims: controller
\* The step of worker w through handleErr.
HandleErrStep(w) == workers[w].pc = "handleErr" /\ workers'[w].pc = "done"

\* C11: a failed sync re-queues its key rate-limited (on a queue that is not
\* shutting down) while the key's requeue count is below the retry limit; at
\* the limit the failure forgets the key and re-queues nothing; a successful
\* sync forgets the key; so the requeue count never exceeds the limit.
C11_RetryCeiling ==
  /\ [](\A k \in Keys : failures[k] <= policyWorkQueueRetryLimit)
  /\ [][\A w \in Workers : HandleErrStep(w) =>
          LET k == workers[w].key
              err == workers[w].err
          IN /\ err = NoErr => failures'[k] = 0 /\ waitingForQueue' = waitingForQueue
             /\ err # NoErr /\ failures[k] < policyWorkQueueRetryLimit =>
                  /\ failures'[k] = failures[k] + 1
                  /\ ~queue.shuttingDown => k \in waitingForQueue'
             /\ err # NoErr /\ failures[k] >= policyWorkQueueRetryLimit =>
                  /\ failures'[k] = 0
                  /\ waitingForQueue' = waitingForQueue
             /\ queue' = queue]_vars

\* A failure of a key that was not re-queued: its count was at the limit.
C11_Witness ==
  \E w \in Workers :
    /\ workers[w].pc = "done" /\ workers[w].err # NoErr
    /\ failures[workers[w].key] = 0
    /\ workers[w].key \notin waitingForQueue
    /\ ~queue.shuttingDown

\* C16: no key is in flight with two workers; the keys in processing are the
\* keys of the workers between their Get and their Done, whether the sync
\* failed or not; a key in processing is not queued until its Done; the queue
\* holds a key once.
C16_OneWorkerPerKey ==
  /\ \A w1, w2 \in Workers :
       InFlight(w1) /\ InFlight(w2) /\ workers[w1].key = workers[w2].key => w1 = w2
  /\ queue.processing = {workers[w].key : w \in {x \in Workers : InFlight(x)}}
  /\ \A i \in 1..Len(queue.queue) : queue.queue[i] \notin queue.processing
  /\ \A i, j \in 1..Len(queue.queue) : queue.queue[i] = queue.queue[j] => i = j

\* A key whose sync failed was added again while in flight, and a free worker
\* waits for a key.
C16_Witness ==
  \E w1, w2 \in Workers :
    /\ workers[w1].pc = "done" /\ workers[w1].err # NoErr
    /\ workers[w1].key \in queue.dirty
    /\ workers[w2].pc = "get" /\ queue.queue = <<>>

\* C17 as stated: from the start of the workers until the stop signal the
\* queue is open.
C17_AsStated ==
  run \in {"started", "returned"} /\ ~stopCh => ~queue.shuttingDown

\* C20 as stated: a sync that met a store access error hands an error to
\* handleErr.
C20_AsStated ==
  \A w \in Workers :
    workers[w].pc = "handleErr" /\ workers[w].storeErr => workers[w].err # NoErr

\* ================================================================ Mutate
\* engine.Mutate: one policy applied to one resource.

\* Resources: a kind, labels (a label is absent or carries "1") and, for a
\* kind that embeds a pod template, the autogen annotation of the template:
\* absent, present, or unreachable because the annotations are no mapping.
LabelKeys == {"a", "b"}
NoLabel == ""
ResourceKinds == {"Deployment", "ConfigMap"}
Resource(kind, labels, podAnnotation) ==
  [kind |-> kind, labels |-> labels, podAnnotation |-> podAnnotation]
Resources ==
  {Resource("ConfigMap", l, "absent") : l \in [LabelKeys -> {NoLabel, "1"}]}
  \cup {Resource("Deployment", l, t) : l \in [LabelKeys -> {NoLabel, "1"}],
                                       t \in {"absent", "present", "malformed"}}

\* PodControllers (line 18) and strings.Contains(PodControllers, kind) for the
\* kinds of the model.
PodControllers == {"DaemonSet", "Deployment", "Job", "StatefulSet"}
IsPodController(kind) == kind \in PodControllers
PodTemplateAnnotation == "pod-policies.kyverno.io/autogen-applied"

\* kyverno.RequestInfo: the zero value, or the identity of a caller.
EmptyRequestInfo == ""
RequestInfos == {EmptyRequestInfo, "user"}

\* Overlays: none, a value for a label (a literal or a reference into the
\* context), a pattern whose shape the labels of no resource have, and the
\* insert-if-absent annotation of the pod template.
LabelVar(key) == "{{request.object.metadata.labels." \o key \o "}}"
NoOverlay == [shape |-> "nil", key |-> "", value |-> ""]
LabelOverlay(key, value) == [shape |-> "labels", key |-> key, value |-> value]
MismatchOverlay == [shape |-> "sequence", key |-> "", value |-> ""]
Overlays == {NoOverlay, LabelOverlay("a", "1"), LabelOverlay("a", LabelVar("b")), MismatchOverlay}
\* podTemplateRule (lines 146-163).
podTemplateRule == [shape |-> "podTemplate", key |-> "+(" \o PodTemplateAnnotation \o ")",
                    value |-> "true"]

\* Literal patches: none, or the removal of label b.
NoPatches == <<>>
PatchOp(op, path, value) == [op |-> op, path |-> path, value |-> value]
PatchLists == {NoPatches, <<PatchOp("remove", "/metadata/labels/b", "")>>}

\* The gates of a rule: a label selector of its resource description, and a
\* precondition on a label of the request object.
NoSelector == ""
Condition(key, value) == [key |-> key, operator |-> "Equal", value |-> value]
Gates == {[selector |-> NoSelector, conditions |-> <<>>],
          [selector |-> "a", conditions |-> <<>>],
          [selector |-> NoSelector, conditions |-> <<Condition(LabelVar("a"), "1")>>]}

MutateRule(name, gate, overlay, patches) ==
  [name |-> name, selector |-> gate.selector, conditions |-> gate.conditions,
   overlay |-> overlay, patches |-> patches]
RuleName(i) == IF i = 1 THEN "r1" ELSE IF i = 2 THEN "r2" ELSE "r3"
MutatePolicies ==
  UNION {{[i \in 1..n |-> MutateRule(RuleName(i), g[i], o[i], p[i])] :
            g \in [1..n -> Gates], o \in [1..n -> Overlays], p \in [1..n -> PatchLists]}
         : n \in 1..MaxMutateRules}

\* The evaluation context: the labels of the triggering resource.
Context(resource) == [labels |-> resource.labels]
PolicyContext(p, resource, admissionInfo) ==
  [Policy |-> p, NewResource |-> resource, AdmissionInfo |-> admissionInfo,
   Context |-> Context(resource)]

\* ---- collaborators of Mutate
\* rule.HasMutate.
HasMutate(rule) == rule.overlay # NoOverlay \/ rule.patches # NoPatches

\* MatchesResourceDescription: the label selector of the rule on the resource.
MatchesResourceDescription(resource, rule, admissionInfo) ==
  IF rule.selector = NoSelector \/ resource.labels[rule.selector] = "1" THEN NoErr
  ELSE Err("NoMatch", rule.name)

\* The resolution of one value against the context: a reference resolves to
\* the label it names, and fails when the label is absent.
IsVar(v) == v \in {LabelVar(k) : k \in LabelKeys}
VarKey(v) == CHOOSE k \in LabelKeys : v = LabelVar(k)
Resolve(ctx, v) ==
  IF ~IsVar(v) THEN [value |-> v, err |-> NoErr]
  ELSE IF ctx.labels[VarKey(v)] = NoLabel THEN [value |-> v, err |-> Err("Unresolved", VarKey(v))]
  ELSE [value |-> ctx.labels[VarKey(v)], err |-> NoErr]

\* variables.EvaluateConditions: every condition holds after substitution.
EvaluateConditions(ctx, conditions) ==
  \A j \in 1..Len(conditions) :
    LET k == Resolve(ctx, conditions[j].key)
    IN k.err = NoErr /\ k.value = conditions[j].value

\* variables.SubstituteVars on an overlay.
SubstituteVars(ctx, overlay) ==
  LET v == Resolve(ctx, overlay.value)
  IN [overlay |-> [overlay EXCEPT !.value = v.value], err |-> v.err]

\* response.RuleResponse; nil patches are the empty list.
RuleResponse(name, success, message, patches) ==
  [Name |-> name, Success |-> success, Message |-> message, Patches |-> patches]
Processed(ruleResponse, resource) == [ruleResponse |-> ruleResponse, resource |-> resource]

\* mutate.ProcessOverlay: the patch that makes the resource match the overlay.
ProcessOverlay(ruleName, overlay, resource) ==
  IF overlay.shape = "labels"
  THEN IF resource.labels[overlay.key] = overlay.value
       THEN Processed(RuleResponse(ruleName, TRUE, "already satisfied", NoPatches), resource)
       ELSE Processed(
              RuleResponse(ruleName, TRUE, "applied",
                <<PatchOp(IF resource.labels[overlay.key] = NoLabel THEN "add" ELSE "replace",
                          "/metadata/labels/" \o overlay.key, overlay.value)>>),
              [resource EXCEPT !.labels[overlay.key] = overlay.value])
  ELSE IF overlay.shape = "podTemplate"
  THEN IF resource.podAnnotation = "present"
       THEN Processed(RuleResponse(ruleName, TRUE, "already satisfied", NoPatches), resource)
       ELSE IF resource.podAnnotation = "absent"
       THEN Processed(
              RuleResponse(ruleName, TRUE, "applied",
                <<PatchOp("add", "/spec/template/metadata/annotations/" \o PodTemplateAnnotation,
                          overlay.value)>>),
              [resource EXCEPT !.podAnnotation = "present"])
       ELSE Processed(RuleResponse(ruleName, FALSE, "shape mismatch", NoPatches), resource)
  ELSE Processed(RuleResponse(ruleName, FALSE, "shape mismatch", NoPatches), resource)

\* mutate.ProcessPatches: all the operations apply, or the resource is kept.
ProcessPatches(rule, resource) ==
  IF \A j \in 1..Len(rule.patches) : resource.labels["b"] # NoLabel
  THEN Processed(RuleResponse(rule.name, TRUE, "applied", rule.patches),
                 [resource EXCEPT !.labels["b"] = NoLabel])
  ELSE Processed(RuleResponse(rule.name, FALSE, "patch failed", NoPatches), resource)

\* ---- Mutate
\* The response under construction and the threaded resource; steps keeps,
\* per rule, what the loop body did.
Snapshot(acc) ==
  [resource |-> acc.patchedResource, count |-> acc.RulesAppliedCount, n |-> Len(acc.Rules)]
appendRule(acc, ruleResponse) == [acc EXCEPT !.Rules = Append(@, ruleResponse)]
\* The count raised by two.
incrementAppliedRuleCount_twice(acc) == [acc EXCEPT !.RulesAppliedCount = @ + 2]

\* incrementAppliedRuleCount (lines 125-127).
incrementAppliedRuleCount(acc) == [acc EXCEPT !.RulesAppliedCount = @ + 1]
Phase(acc, outcome, continue) == [acc |-> acc, outcome |-> outcome, continue |-> continue]
Outcome(ruleResponse) ==
  IF ~ruleResponse.Success THEN "failed"
  ELSE IF ruleResponse.Patches = NoPatches THEN "satisfied" ELSE "patched"

\* The failed substitution counted as an applied rule.
substitutionFailed_counted(acc, err) ==
  incrementAppliedRuleCount(appendRule(acc, RuleResponse("", FALSE, err.kind, NoPatches)))

\* The branch of a failed overlay substitution (lines 70-74).
substitutionFailed(acc, err) == appendRule(acc, RuleResponse("", FALSE, err.kind, NoPatches))

\* The overlay phase (lines 64-90).
overlayPhase(rule, ctx, acc) ==
  IF rule.overlay = NoOverlay THEN Phase(acc, "none", FALSE)
  ELSE With(SubstituteVars(ctx, rule.overlay), LAMBDA sub :
         IF sub.err # NoErr THEN Phase(substitutionFailed(acc, sub.err), "substitution", TRUE)
         ELSE With(ProcessOverlay(rule.name, sub.overlay, acc.patchedResource), LAMBDA done :
                IF done.ruleResponse.Success /\ done.ruleResponse.Patches = NoPatches
                THEN Phase([acc EXCEPT !.patchedResource = done.resource], "satisfied", TRUE)
                ELSE Phase(incrementAppliedRuleCount(
                             appendRule([acc EXCEPT !.patchedResource = done.resource],
                                        done.ruleResponse)),
                           Outcome(done.ruleResponse), FALSE)))

\* The literal-patches phase (lines 92-99).
patchesPhase(rule, acc) ==
  IF rule.patches = NoPatches THEN Phase(acc, "none", FALSE)
  ELSE With(ProcessPatches(rule, acc.patchedResource), LAMBDA done :
         Phase(incrementAppliedRuleCount(
                 appendRule([acc EXCEPT !.patchedResource = done.resource], done.ruleResponse)),
               Outcome(done.ruleResponse), FALSE))

\* The autogen phase run for any caller.
skipExisting_never(admissionInfo) == FALSE

\* The test that skips the autogen phase on existing resources (lines 103-105).
skipExisting(admissionInfo) == admissionInfo = EmptyRequestInfo

\* The autogen phase (lines 101-119).
autogenPhase(rule, resource, admissionInfo, acc) ==
  IF skipExisting(admissionInfo) THEN Phase(acc, "skipped", TRUE)
  ELSE IF ~IsPodController(resource.kind) THEN Phase(acc, "none", FALSE)
  ELSE With(ProcessOverlay(rule.name, podTemplateRule, acc.patchedResource), LAMBDA done :
         IF ~done.ruleResponse.Success
         THEN Phase([acc EXCEPT !.patchedResource = done.resource], "failed", TRUE)
         ELSE IF done.ruleResponse.Patches # NoPatches
         THEN Phase(appendRule([acc EXCEPT !.patchedResource = done.resource],
                               done.ruleResponse), "patched", FALSE)
         ELSE Phase([acc EXCEPT !.patchedResource = done.resource], "satisfied", FALSE))

\* What the loop body did for rule i: the gate it stopped at ("run" when it
\* passed all), the outcome of each phase, and the response before and after.
Step(i, gate, overlay, patches, autogen, before, acc) ==
  [acc EXCEPT !.steps = Append(@, [rule |-> i, gate |-> gate, overlay |-> overlay,
                                   patches |-> patches, autogen |-> autogen,
                                   before |-> before, after |-> Snapshot(acc)])]

\* The body of the loop over the rules (lines 37-120).
mutateRule(rule, i, pc, acc) ==
  LET resource == pc.NewResource
      before == Snapshot(acc)
  IN IF ~HasMutate(rule) /\ ~IsPodController(resource.kind)
     THEN Step(i, "noMutate", "notReached", "notReached", "notReached", before, acc)
     ELSE IF MatchesResourceDescription(resource, rule, pc.AdmissionInfo) # NoErr
     THEN Step(i, "noMatch", "notReached", "notReached", "notReached", before, acc)
     ELSE IF ~EvaluateConditions(pc.Context, rule.conditions)
     THEN Step(i, "conditions", "notReached", "notReached", "notReached", before, acc)
     ELSE With(overlayPhase(rule, pc.Context, acc), LAMBDA o :
            IF o.continue
            THEN Step(i, "run", o.outcome, "notReached", "notReached", before, o.acc)
            ELSE With(patchesPhase(rule, o.acc), LAMBDA p :
                   With(autogenPhase(rule, resource, pc.AdmissionInfo, p.acc), LAMBDA a :
                     Step(i, "run", o.outcome, p.outcome, a.outcome, before, a.acc))))

RECURSIVE mutateRules(_, _, _)
\* The loop over policy.Spec.Rules from rule i on.
mutateRules(pc, i, acc) ==
  IF i > Len(pc.Policy) THEN acc
  ELSE With(mutateRule(pc.Policy[i], i, pc, acc), LAMBDA next : mutateRules(pc, i + 1, next))

\* Mutate (lines 26-124): the EngineResponse.
Mutate(pc) ==
  With(mutateRules(pc, 1, [Rules |-> <<>>, RulesAppliedCount |-> 0,
                           patchedResource |-> pc.NewResource, steps |-> <<>>]),
       LAMBDA acc : [Rules |-> acc.Rules, RulesAppliedCount |-> acc.RulesAppliedCount,
                     PatchedResource |-> acc.patchedResource, steps |-> acc.steps])

\* ---- state machine
NoResp == [Rules |-> <<>>, RulesAppliedCount |-> 0, PatchedResource |-> NoValue, steps |-> <<>>]

InitMutate ==
  /\ policyContext \in {PolicyContext(p, r, a) :
                          p \in MutatePolicies, r \in Resources, a \in RequestInfos}
  /\ resp = NoResp
  /\ GenerateIdle /\ ControllerIdle

\* One call of Mutate.
CallMutate ==
  /\ resp = NoResp
  /\ resp' = Mutate(policyContext)
  /\ UNCHANGED <<policyContext, genVars, ctlVars>>

NextMutate == CallMutate

SpecMutate == InitMutate /\ [][NextMutate]_vars

\* -------------------------------------------------------- claims: Mutate
\* Mutate has returned; the steps of its loop and the rule of a step.
Called == resp # NoResp
MutateSteps == {resp.steps[j] : j \in 1..Len(resp.steps)}
RuleOf(st) == policyContext.Policy[st.rule]
\* The responses that insert the autogen annotation of the pod template.
IsAutogen(ruleResponse) ==
  \E j \in 1..Len(ruleResponse.Patches) :
    ruleResponse.Patches[j] =
      PatchOp("add", "/spec/template/metadata/annotations/" \o PodTemplateAnnotation, "true")
AutogenResponses(r) == {j \in 1..Len(r.Rules) : IsAutogen(r.Rules[j])}
ProducedPatches(st) == st.overlay = "patched" \/ st.patches = "patched"

\* C12 as stated: a rule whose matcher and preconditions hold on the resource
\* as patched by the rules before it is applied.
C12_AsStated ==
  Called =>
    \A st \in MutateSteps :
      (/\ HasMutate(RuleOf(st)) \/ IsPodController(policyContext.NewResource.kind)
       /\ MatchesResourceDescription(st.before.resource, RuleOf(st),
                                     policyContext.AdmissionInfo) = NoErr
       /\ EvaluateConditions(Context(st.before.resource), RuleOf(st).conditions))
      => st.gate = "run"

\* C13: with an empty AdmissionInfo no autogen overlay runs and no response
\* inserts the autogen annotation; on a Deployment whose pod template lacks
\* the annotation, with a caller identity and a rule that produced patches,
\* exactly one response inserts the annotation, one more response than the
\* same call with an empty AdmissionInfo yields.
C13_AutogenGating ==
  Called =>
    /\ policyContext.AdmissionInfo = EmptyRequestInfo =>
         /\ AutogenResponses(resp) = {}
         /\ \A st \in MutateSteps : st.autogen \in {"notReached", "skipped"}
    /\ (/\ policyContext.AdmissionInfo # EmptyRequestInfo
        /\ policyContext.NewResource.kind = "Deployment"
        /\ policyContext.NewResource.podAnnotation = "absent"
        /\ \E st \in MutateSteps : st.gate = "run" /\ ProducedPatches(st))
       => /\ Cardinality(AutogenResponses(resp)) = 1
          /\ resp.PatchedResource.podAnnotation = "present"
          /\ Len(resp.Rules) =
               Len(Mutate([policyContext EXCEPT !.AdmissionInfo = EmptyRequestInfo]).Rules) + 1

\* A Deployment mutated for a caller by two rules that produce patches: one
\* response inserts the annotation.
C13_Witness ==
  /\ Called
  /\ policyContext.AdmissionInfo # EmptyRequestInfo
  /\ policyContext.NewResource.kind = "Deployment"
  /\ policyContext.NewResource.podAnnotation = "absent"
  /\ Len(resp.steps) = 2
  /\ \A st \in MutateSteps : st.gate = "run" /\ ProducedPatches(st)
  /\ Cardinality(AutogenResponses(resp)) = 1

\* C14 as stated: the applied count is the number of phases that produced
\* patches.
C14_AsStated ==
  Called =>
    resp.RulesAppliedCount =
      Cardinality({x \in (1..Len(resp.steps)) \X {"overlay", "patches", "autogen"} :
                     resp.steps[x[1]][x[2]] = "patched"})

\* C15: a failed overlay substitution appends one failed response carrying
\* the error, leaves the threaded resource and the applied count as they
\* were and runs no other phase of the rule; every rule of the policy is
\* evaluated, in order.
C15_SubstitutionFailureRuleScoped ==
  Called =>
    /\ Len(resp.steps) = Len(policyContext.Policy)
    /\ \A j \in 1..Len(resp.steps) : resp.steps[j].rule = j
    /\ \A st \in MutateSteps :
         st.overlay = "substitution" =>
           /\ st.after.n = st.before.n + 1
           /\ ~resp.Rules[st.after.n].Success
           /\ resp.Rules[st.after.n].Message = "Unresolved"
           /\ st.after.resource = st.before.resource
           /\ st.after.count = st.before.count
           /\ st.patches = "notReached" /\ st.autogen = "notReached"

\* The substitution of the first rule fails and the second rule is applied.
C15_Witness ==
  /\ Called
  /\ Len(resp.steps) = 2
  /\ resp.steps[1].overlay = "substitution"
  /\ resp.steps[2].gate = "run" /\ resp.steps[2].overlay = "patched"

\* C18 as stated: for a controller kind and a caller identity, the autogen
\* phase runs for every rule that passes the gates.
C18_AsStated ==
  (/\ Called
   /\ IsPodController(policyContext.NewResource.kind)
   /\ policyContext.AdmissionInfo # EmptyRequestInfo)
  => \A st \in MutateSteps : st.gate = "run" => st.autogen # "notReached"

\* C19 as stated: an overlay phase that succeeds with nil patches has its
\* response recorded, changes neither the count nor the resource, and is
\* followed by the literal-patches phase of a rule that defines Patches.
C19_AsStated ==
  Called =>
    \A st \in MutateSteps :
      st.overlay = "satisfied" =>
        /\ st.after.n > st.before.n
        /\ resp.Rules[st.before.n + 1] =
             RuleResponse(RuleOf(st).name, TRUE, "already satisfied", NoPatches)
        /\ RuleOf(st).patches # NoPatches => st.patches # "notReached"

\* C23: the applied count never exceeds the number of RuleResponses, and when
\* no rule passes the gates both are zero and the patched resource is the
\* input resource.
C23_CountAtMostResponses ==
  Called =>
    /\ resp.RulesAppliedCount <= Len(resp.Rules)
    /\ (\A st \in MutateSteps : st.gate # "run") =>
         /\ resp.RulesAppliedCount = 0
         /\ resp.Rules = <<>>
         /\ resp.PatchedResource = policyContext.NewResource

\* Counted and uncounted responses in one call.
C23_Witness ==
  /\ Called
  /\ resp.RulesAppliedCount >= 1
  /\ resp.RulesAppliedCount < Len(resp.Rules)
====
